---- MODULE Spec2Model ----
(***************************************************************************)
(* Meditation session engine of cyberdeck.py: MeditationSession.create     *)
(* (the planner), Cyberdeck.play_meditation / play_alarm (the playback     *)
(* controller), Cyberdeck.toggle_touchscreen_backlight (the backlight      *)
(* driver) and Cyberdeck.meditate (the session runner).                    *)
(*                                                                         *)
(* A clip is identified by its index in the list load_meditations          *)
(* returned; meditations[i] is its duration in seconds.  Python floats     *)
(* (padding, offsets) are modelled as exact rationals [num, den].          *)
(* The heartbeat renderer is modelled as an event only: the terminal is    *)
(* taken to be a tty tall enough for the status block.                     *)
(***************************************************************************)
EXTENDS Integers, Sequences, FiniteSets, TLC

\* ------------------------------------------------------------- bounds
MaxClips == 3
MaxDur == 3
MaxBudget == 6
MaxCycle == 180

VARIABLES
    pc,            \* position of the program (meditate and what it calls)
    exc,           \* the exception being raised, "none" when there is none
    meditations,   \* list returned by load_meditations: durations, by clip id
    duration,      \* the session duration asked for, in seconds
    available,     \* create: the shuffled copy of the list (clip ids)
    idx,           \* create: position of the current for loop
    remaining,     \* create: remaining
    selected,      \* create: selected (clip ids); then session.meditations
    padding,       \* create: padding; then session.padding (a rational)
    offset,        \* create: offset accumulator (a rational)
    offsets,       \* meditation.offset of selected[i], by position
    walk,          \* history: one record per clip the first loop looked at
    cur,           \* meditate: position of the for loop over the session
    procs,         \* every cvlc process spawned so far, in spawn order
    cycle,         \* play_meditation: cycle
    bl_power,      \* content of the backlight control file: "0" is lit
    lastWrite,     \* history: value of the last toggle call
    lastWriteOk,   \* history: whether that call's write succeeded
    trace,         \* history: what meditate did, in order
    intPc,         \* history: pc at which the KeyboardInterrupt was delivered
    intProcs,      \* history: number of processes spawned by then
    tickFailed,    \* history: a backlight write of a tick has failed
    onTicks,       \* history: ticks of this playback that wrote "on"
    offTicks,      \* history: ticks of this playback that wrote "off"
    beatTicks,     \* history: ticks of this playback that drew a heartbeat
    reported,      \* "error: no meditations available" was printed
    dir,           \* the meditations directory: whether it can be listed, and
                   \* what ffprobe prints for each of its files
    ldIdx,         \* load_meditations: position of the for loop
    prog,          \* the program run at login: "cyberdeck" or "startup"
    xrandr,        \* `xrandr --listmonitors`: whether it exits with 0, and the
                   \* monitor names it prints, in order
    hdmi,          \* self.hdmi is set
    touchscreen,   \* self.touchscreen is set
    mode,          \* self.mode
    launched       \* what the login program has launched or run, in order

planVars == <<meditations, duration, available, idx, remaining, selected,
              padding, offset, offsets, walk>>
lightVars == <<bl_power, lastWrite, lastWriteOk>>
tickVars == <<tickFailed, onTicks, offTicks, beatTicks>>
intVars == <<intPc, intProcs>>
sysVars == <<dir, ldIdx, prog, xrandr, hdmi, touchscreen, mode, launched>>
vars == <<pc, exc, planVars, cur, procs, cycle, lightVars, trace, intVars,
          tickVars, reported, sysVars>>

\* ------------------------------------------------------------ rationals
Rat(n, d) == [num |-> n, den |-> d]

RInt(n) == Rat(n, 1)

RAdd(a, b) ==
    IF a.den = b.den THEN Rat(a.num + b.num, a.den)
    ELSE Rat(a.num * b.den + b.num * a.den, a.den * b.den)

REq(a, b) == a.num * b.den = b.num * a.den

RLess(a, b) == a.num * b.den < b.num * a.den

\* -------------------------------------------------------------- helpers
RECURSIVE SumDur(_)
SumDur(ids) ==
    IF ids = <<>> THEN 0
    ELSE meditations[Head(ids)] + SumDur(Tail(ids))

Injective(s) == \A i, j \in DOMAIN s : s[i] = s[j] => i = j

\* random.choices would draw with replacement
Samples(n) == [1..n -> 1..n]

\* random.shuffle of a copy of the list: every order of the n clips
Shuffles(n) == {s \in [1..n -> 1..n] : Injective(s)}

AcceptsLeq(d, rem) == d <= rem

\* if meditation.duration < remaining
Accepts(d, rem) == d < rem

KeepRemaining(rem, d) == rem

\* remaining -= meditation.duration
Decrease(rem, d) == rem - d

\* padding = remaining / len(selected), for len(selected) > 0
Padding(rem, n) == Rat(rem, n)

NextOffsetNoPadding(off, d, pad) == RAdd(off, RInt(d))

\* offset += meditation.duration + padding
NextOffset(off, d, pad) == RAdd(off, RAdd(RInt(d), pad))

NoPadding == Rat(0, 1)

\* ------------------------------------------- MeditationSession.create
CrShuffle ==
    /\ pc = "cr_shuffle"
    /\ remaining' = duration
    /\ selected' = <<>>
    /\ available' \in Shuffles(Len(meditations))
    /\ idx' = 1
    /\ pc' = "cr_walk"
    /\ UNCHANGED <<exc, meditations, duration, padding, offset, offsets, walk,
                   cur, procs, cycle, lightVars, trace, intVars, tickVars,
                   reported>>
    /\ UNCHANGED sysVars

CrWalk ==
    /\ pc = "cr_walk"
    /\ idx <= Len(available)
    /\ LET id == available[idx]
           d == meditations[id]
           take == Accepts(d, remaining)
       IN  /\ selected' = IF take THEN Append(selected, id) ELSE selected
           /\ remaining' = IF take THEN Decrease(remaining, d) ELSE remaining
           /\ walk' = Append(walk, [id |-> id, before |-> remaining,
                                    taken |-> take])
    /\ idx' = idx + 1
    /\ UNCHANGED <<pc, exc, meditations, duration, available, padding, offset,
                   offsets, cur, procs, cycle, lightVars, trace, intVars,
                   tickVars, reported>>
    /\ UNCHANGED sysVars

CrDivide ==
    /\ pc = "cr_walk"
    /\ idx > Len(available)
    /\ IF Len(selected) = 0
       THEN /\ exc' = "ZeroDivisionError"
            /\ pc' = "raised"
            /\ UNCHANGED <<padding, offset, idx>>
       ELSE /\ padding' = Padding(remaining, Len(selected))
            /\ offset' = RInt(0)
            /\ idx' = 1
            /\ pc' = "cr_offsets"
            /\ exc' = exc
    /\ UNCHANGED <<meditations, duration, available, remaining, selected,
                   offsets, walk, cur, procs, cycle, lightVars, trace, intVars,
                   tickVars, reported>>
    /\ UNCHANGED sysVars

CrOffset ==
    /\ pc = "cr_offsets"
    /\ idx <= Len(selected)
    /\ offsets' = Append(offsets, offset)
    /\ offset' = NextOffset(offset, meditations[selected[idx]], padding)
    /\ idx' = idx + 1
    /\ UNCHANGED <<pc, exc, meditations, duration, available, remaining,
                   selected, padding, walk, cur, procs, cycle, lightVars,
                   trace, intVars, tickVars, reported>>
    /\ UNCHANGED sysVars

CrReturn ==
    /\ pc = "cr_offsets"
    /\ idx > Len(selected)
    /\ pc' = "cr_returned"
    /\ UNCHANGED <<exc, planVars, cur, procs, cycle, lightVars, trace, intVars,
                   tickVars, reported>>
    /\ UNCHANGED sysVars

Create == CrShuffle \/ CrWalk \/ CrDivide \/ CrOffset \/ CrReturn

\* ------------------------------- Cyberdeck.toggle_touchscreen_backlight
\* fp.write(b'0\n' if enabled else b'1\n')
PowerValue(enabled) == IF enabled THEN "0" ELSE "1"

\* One call: ok is whether opening and writing the control file succeeded
\* (it raises OSError otherwise and the file keeps its content).
Toggle(enabled, ok) ==
    /\ lastWrite' = IF enabled THEN "on" ELSE "off"
    /\ lastWriteOk' = ok
    /\ bl_power' = IF ok THEN PowerValue(enabled) ELSE bl_power

\* ------------------------------------------------- Cyberdeck.play_audio
Proc(loop) == [loop |-> loop, state |-> "running", waited |-> FALSE]

Running == {p \in DOMAIN procs : procs[p].state = "running"}

\* the process the playback operation in progress holds in vlc
Vlc == Len(procs)

\* vlc.poll() and vlc.wait() collect the exit status of a process that ended
Reap(p) == [procs EXCEPT ![p].waited = (procs[p].state # "running")]

\* vlc.terminate(), then vlc.wait()
Terminate(p) ==
    [procs EXCEPT ![p].state = IF @ = "running" THEN "terminated" ELSE @]

\* --------------------------------------------- Cyberdeck.play_meditation
CatchesNothing(e) == FALSE

\* except KeyboardInterrupt:
HandlerCatches(e) == e = "KeyboardInterrupt"

Swallow(e) == "none"

\* raise (the handler re-raises what it caught)
Reraise(e) == e

TickWriteOffFirst(c) ==
    IF c % 30 = 0 THEN "off" ELSE IF c % 90 = 0 THEN "on" ELSE "none"

\* if cycle % 90 == 0: ... elif cycle % 30 == 0: ...
TickWrite(c) ==
    IF c % 90 = 0 THEN "on" ELSE IF c % 30 = 0 THEN "off" ELSE "none"

\* where an exception raised inside the try block of play_meditation goes
PmRaise(e) == IF HandlerCatches(e) THEN "pm_except" ELSE "pm_finally"

PmHeartbeat ==
    /\ pc = "pm_heartbeat"
    /\ pc' = "pm_on"
    /\ UNCHANGED <<exc, planVars, cur, procs, cycle, lightVars, trace, intVars,
                   tickVars, reported>>
    /\ UNCHANGED sysVars

PmBacklightOn ==
    /\ pc = "pm_on"
    /\ \E ok \in BOOLEAN :
          /\ Toggle(TRUE, ok)
          /\ pc' = IF ok THEN "pm_spawn" ELSE "raised"
          /\ exc' = IF ok THEN exc ELSE "OSError"
    /\ UNCHANGED <<planVars, cur, procs, cycle, trace, intVars, tickVars,
                   reported>>
    /\ UNCHANGED sysVars

PmSpawn ==
    /\ pc = "pm_spawn"
    /\ procs' = Append(procs, Proc(FALSE))
    /\ trace' = Append(trace, <<"play", selected[cur]>>)
    /\ pc' = "pm_init"
    /\ UNCHANGED <<exc, planVars, cur, cycle, lightVars, intVars, tickVars,
                   reported>>
    /\ UNCHANGED sysVars

PmInit ==
    /\ pc = "pm_init"
    /\ cycle' = 0
    /\ onTicks' = {}
    /\ offTicks' = {}
    /\ beatTicks' = {}
    /\ pc' = "pm_poll"
    /\ UNCHANGED <<exc, planVars, cur, procs, lightVars, trace, intVars,
                   tickFailed, reported>>
    /\ UNCHANGED sysVars

\* (no clip lasts more than MaxCycle ticks: the poll after the last tick finds
\* the process ended)
PmPoll ==
    /\ pc = "pm_poll"
    /\ cycle < MaxCycle \/ procs[Vlc].state # "running"
    /\ procs' = Reap(Vlc)
    /\ pc' = IF procs[Vlc].state = "running" THEN "pm_incr" ELSE "pm_finally"
    /\ UNCHANGED <<exc, planVars, cur, cycle, lightVars, trace, intVars,
                   tickVars, reported>>
    /\ UNCHANGED sysVars

PmIncr ==
    /\ pc = "pm_incr"
    /\ cycle < MaxCycle
    /\ cycle' = cycle + 1
    /\ pc' = "pm_check"
    /\ UNCHANGED <<exc, planVars, cur, procs, lightVars, trace, intVars,
                   tickVars, reported>>
    /\ UNCHANGED sysVars

PmCheck ==
    /\ pc = "pm_check"
    /\ LET w == TickWrite(cycle)
       IN  IF w = "none"
           THEN /\ pc' = "pm_sleep"
                /\ UNCHANGED <<exc, lightVars, tickVars>>
           ELSE \E ok \in BOOLEAN :
                   /\ Toggle(w = "on", ok)
                   /\ beatTicks' = IF w = "on" THEN beatTicks \cup {cycle}
                                   ELSE beatTicks
                   /\ onTicks' = IF w = "on" THEN onTicks \cup {cycle}
                                 ELSE onTicks
                   /\ offTicks' = IF w = "off" THEN offTicks \cup {cycle}
                                  ELSE offTicks
                   /\ tickFailed' = (tickFailed \/ ~ok)
                   /\ exc' = IF ok THEN exc ELSE "OSError"
                   /\ pc' = IF ok THEN "pm_sleep" ELSE PmRaise("OSError")
    /\ UNCHANGED <<planVars, cur, procs, cycle, trace, intVars, reported>>
    /\ UNCHANGED sysVars

PmSleep ==
    /\ pc = "pm_sleep"
    /\ pc' = "pm_poll"
    /\ UNCHANGED <<exc, planVars, cur, procs, cycle, lightVars, trace, intVars,
                   tickVars, reported>>
    /\ UNCHANGED sysVars

PmExcept ==
    /\ pc = "pm_except"
    /\ procs' = Terminate(Vlc)
    /\ pc' = "pm_wait"
    /\ UNCHANGED <<exc, planVars, cur, cycle, lightVars, trace, intVars,
                   tickVars, reported>>
    /\ UNCHANGED sysVars

PmWait ==
    /\ pc = "pm_wait"
    /\ procs' = Reap(Vlc)
    /\ exc' = Reraise(exc)
    /\ pc' = "pm_finally"
    /\ UNCHANGED <<planVars, cur, cycle, lightVars, trace, intVars, tickVars,
                   reported>>
    /\ UNCHANGED sysVars

PmFinally ==
    /\ pc = "pm_finally"
    /\ \E ok \in BOOLEAN :
          /\ Toggle(TRUE, ok)
          /\ exc' = IF ok THEN exc ELSE "OSError"
          /\ pc' = IF ok /\ exc = "none" THEN "md_transition" ELSE "raised"
    /\ UNCHANGED <<planVars, cur, procs, cycle, trace, intVars, tickVars,
                   reported>>
    /\ UNCHANGED sysVars

PlayMeditation ==
    \/ PmHeartbeat \/ PmBacklightOn \/ PmSpawn \/ PmInit \/ PmPoll \/ PmIncr
    \/ PmCheck \/ PmSleep \/ PmExcept \/ PmWait \/ PmFinally

\* --------------------------------------------------- Cyberdeck.play_alarm
PaRaise(e) == IF HandlerCatches(e) THEN "pa_except" ELSE "raised"

PaSpawn ==
    /\ pc = "pa_spawn"
    /\ procs' = Append(procs, Proc(TRUE))
    /\ trace' = Append(trace, <<"alarm", 0>>)
    /\ pc' = "pa_banner"
    /\ UNCHANGED <<exc, planVars, cur, cycle, lightVars, intVars, tickVars,
                   reported>>
    /\ UNCHANGED sysVars

PaBanner ==
    /\ pc = "pa_banner"
    /\ pc' = "pa_poll"
    /\ UNCHANGED <<exc, planVars, cur, procs, cycle, lightVars, trace, intVars,
                   tickVars, reported>>
    /\ UNCHANGED sysVars

PaPoll ==
    /\ pc = "pa_poll"
    /\ procs' = Reap(Vlc)
    /\ pc' = IF procs[Vlc].state = "running" THEN "pa_sleep" ELSE "done"
    /\ UNCHANGED <<exc, planVars, cur, cycle, lightVars, trace, intVars,
                   tickVars, reported>>
    /\ UNCHANGED sysVars

PaSleep ==
    /\ pc = "pa_sleep"
    /\ pc' = "pa_poll"
    /\ UNCHANGED <<exc, planVars, cur, procs, cycle, lightVars, trace, intVars,
                   tickVars, reported>>
    /\ UNCHANGED sysVars

PaExcept ==
    /\ pc = "pa_except"
    /\ procs' = Terminate(Vlc)
    /\ pc' = "pa_wait"
    /\ UNCHANGED <<exc, planVars, cur, cycle, lightVars, trace, intVars,
                   tickVars, reported>>
    /\ UNCHANGED sysVars

PaWait ==
    /\ pc = "pa_wait"
    /\ procs' = Reap(Vlc)
    /\ exc' = Reraise(exc)
    /\ pc' = IF Reraise(exc) = "none" THEN "done" ELSE "raised"
    /\ UNCHANGED <<planVars, cur, cycle, lightVars, trace, intVars, tickVars,
                   reported>>
    /\ UNCHANGED sysVars

PlayAlarm == PaSpawn \/ PaBanner \/ PaPoll \/ PaSleep \/ PaExcept \/ PaWait

\* ------------------------------------------------------ Cyberdeck.meditate
ExhaustedEarly(i, n) == i + 1 >= n

\* the for loop over the session has played all n clips after position i
Exhausted(i, n) == i >= n

MdLoad ==
    /\ pc = "md_load"
    /\ IF Len(meditations) = 0
       THEN /\ reported' = TRUE
            /\ pc' = "done"
       ELSE /\ reported' = reported
            /\ pc' = "cr_shuffle"
    /\ UNCHANGED <<exc, planVars, cur, procs, cycle, lightVars, trace, intVars,
                   tickVars>>
    /\ UNCHANGED sysVars

MdFor ==
    /\ pc \in {"cr_returned", "md_next"}
    /\ IF Exhausted(cur, Len(selected))
       THEN /\ pc' = "pa_spawn"
            /\ cur' = cur
       ELSE /\ pc' = "pm_heartbeat"
            /\ cur' = cur + 1
    /\ UNCHANGED <<exc, planVars, procs, cycle, lightVars, trace, intVars,
                   tickVars, reported>>
    /\ UNCHANGED sysVars

MdTransition ==
    /\ pc = "md_transition"
    /\ trace' = Append(trace, <<"transition", selected[cur]>>)
    /\ pc' = "md_sleep"
    /\ UNCHANGED <<exc, planVars, cur, procs, cycle, lightVars, intVars,
                   tickVars, reported>>
    /\ UNCHANGED sysVars

MdSleep ==
    /\ pc = "md_sleep"
    /\ trace' = Append(trace, <<"sleep", selected[cur]>>)
    /\ pc' = "md_next"
    /\ UNCHANGED <<exc, planVars, cur, procs, cycle, lightVars, intVars,
                   tickVars, reported>>
    /\ UNCHANGED sysVars

Meditate == MdLoad \/ MdFor \/ MdTransition \/ MdSleep

\* ------------------------------------------------------------ environment
\* A cvlc process ends on its own: --play-and-exit at the end of the clip,
\* --loop only when it fails or is killed from outside.
ProcExit ==
    /\ \E p \in Running : procs' = [procs EXCEPT ![p].state = "exited"]
    /\ UNCHANGED <<pc, exc, planVars, cur, cycle, lightVars, trace, intVars,
                   tickVars, reported>>
    /\ UNCHANGED sysVars

PmTry == {"pm_poll", "pm_incr", "pm_check", "pm_sleep"}

PaTry == {"pa_poll", "pa_sleep"}

Stopped == {"done", "raised"}

\* One SIGINT while the program runs: KeyboardInterrupt is raised where the
\* program is (the handlers themselves are not interrupted a second time).
Interrupt ==
    /\ intPc = "none"
    /\ pc \notin Stopped
    /\ intPc' = pc
    /\ intProcs' = Len(procs)
    /\ exc' = "KeyboardInterrupt"
    /\ pc' = IF pc \in PmTry THEN PmRaise("KeyboardInterrupt")
             ELSE IF pc \in PaTry THEN PaRaise("KeyboardInterrupt")
             ELSE "raised"
    /\ UNCHANGED <<planVars, cur, procs, cycle, lightVars, trace, tickVars,
                   reported>>
    /\ UNCHANGED sysVars

\* ------------------------------------------------------ specifications
\* a Python value with its type; None is the value of an attribute not set
PyNone == [type |-> "NoneType", val |-> "None"]

\* no program of the login sequence and no load_meditations in progress
InitSys ==
    /\ dir = [exists |-> FALSE, files |-> <<>>]
    /\ ldIdx = 0
    /\ prog = "none"
    /\ xrandr = [ok |-> TRUE, names |-> <<>>]
    /\ hdmi = FALSE
    /\ touchscreen = FALSE
    /\ mode = PyNone
    /\ launched = <<>>

Catalogs == UNION {[1..n -> 0..MaxDur] : n \in 0..MaxClips}

InitRest ==
    /\ exc = "none"
    /\ available = <<>>
    /\ idx = 0
    /\ remaining = 0
    /\ selected = <<>>
    /\ padding = NoPadding
    /\ offset = RInt(0)
    /\ offsets = <<>>
    /\ walk = <<>>
    /\ cur = 0
    /\ procs = <<>>
    /\ cycle = 0
    /\ lastWrite = "none"
    /\ lastWriteOk = TRUE
    /\ trace = <<>>
    /\ intPc = "none"
    /\ intProcs = 0
    /\ tickFailed = FALSE
    /\ onTicks = {}
    /\ offTicks = {}
    /\ beatTicks = {}
    /\ reported = FALSE

\* MeditationSession.create called on any catalog and any budget (ffprobe
\* durations are whole seconds >= 0), and on the catalog {600, 900, 1200}
\* with the budget 1800
InitPlan ==
    /\ pc = "cr_shuffle"
    /\ \/ /\ meditations \in Catalogs
          /\ duration \in 0..MaxBudget
       \/ /\ meditations = <<600, 900, 1200>>
          /\ duration = 1800
    /\ bl_power = "0"
    /\ InitRest
    /\ InitSys

NextPlan == Create

SpecPlan == InitPlan /\ [][NextPlan]_vars

\* a session on a few small catalogs (durations in seconds)
SessionCatalogs == {<<>>, <<2>>, <<1, 2>>}

SessionBudgets == {2, 4}

Init ==
    /\ pc = "md_load"
    /\ meditations \in SessionCatalogs
    /\ duration \in SessionBudgets
    /\ bl_power \in {"0", "1"}
    /\ InitRest
    /\ InitSys

Next == Meditate \/ Create \/ PlayMeditation \/ PlayAlarm \/ ProcExit
        \/ Interrupt

Spec == Init /\ [][Next]_vars

\* ================================================================ claims
Dur(id) == meditations[id]

IsPrefix(s, t) == Len(s) <= Len(t) /\ \A i \in DOMAIN s : s[i] = t[i]

CreateEnded == pc \in {"cr_returned", "raised"}

NoneFits == \A i \in DOMAIN meditations : ~(meditations[i] < duration)

\* C1: create on an empty catalog, or on a budget no clip's duration is
\* strictly less than, ends with the explicit NoClipsSelected error and not
\* in the division of the leftover time by zero selected clips.
C1_NoClipsSelected ==
    (CreateEnded /\ NoneFits) =>
        (exc = "NoClipsSelected" /\ exc # "ZeroDivisionError")

Polled == PmTry \cup PaTry

AllEnded == \A p \in DOMAIN procs : procs[p].state # "running" /\ procs[p].waited

\* C2: when a KeyboardInterrupt delivered while a playback process is being
\* polled (at any tick count) has left the playback operation, every playback
\* process has been terminated and waited for and the last backlight write
\* was "on" (and lit the backlight when it succeeded).
C2_CancelCleansUp ==
    (intPc \in Polled /\ pc = "raised") =>
        /\ AllEnded
        /\ lastWrite = "on"
        /\ lastWriteOk => bl_power = "0"

C2_Witness ==
    /\ intPc = "pm_sleep"
    /\ pc = "raised"
    /\ cycle = 30
    /\ procs[Vlc].state = "terminated"
    /\ lastWriteOk
    /\ bl_power = "0"

\* C3: a backlight write that fails during a playback tick is not fatal: no
\* OSError is left pending and the session stops only when interrupted.
C3_BacklightFailureNonFatal ==
    tickFailed => (exc # "OSError" /\ (pc = "raised" => intPc # "none"))

\* C4: once a KeyboardInterrupt has been delivered, wherever in the session,
\* no further playback process (scheduled clip or alarm) is started.
C4_InterruptAborts == intPc # "none" => Len(procs) = intProcs

C4_Witness ==
    /\ intPc = "md_sleep"
    /\ pc = "raised"
    /\ cur < Len(selected)
    /\ Len(procs) = 1

OnTicksUpTo(c) == {n \in 1..c : n % 90 = 0}

OffTicksUpTo(c) == {n \in 1..c : n % 30 = 0 /\ n % 90 # 0}

\* C5: in an uninterrupted playback, after tick n (counted from 1) the ticks
\* that wrote "on", each with a heartbeat redraw, are the multiples of 90, the
\* ticks that wrote "off" are the multiples of 30 that are not multiples of
\* 90, no other tick wrote, no tick wrote both; after 180 ticks that is on at
\* 90 and 180, off at 30, 60, 120 and 150.
C5_TickPolicy ==
    (pc = "pm_sleep" /\ intPc = "none") =>
        /\ onTicks = OnTicksUpTo(cycle)
        /\ beatTicks = onTicks
        /\ offTicks = OffTicksUpTo(cycle)
        /\ onTicks \cap offTicks = {}
        /\ cycle = 180 => /\ onTicks = {90, 180}
                          /\ offTicks = {30, 60, 120, 150}

C5_Witness ==
    /\ pc = "pm_sleep"
    /\ intPc = "none"
    /\ cycle = 180
    /\ onTicks = {90, 180}
    /\ offTicks = {30, 60, 120, 150}
    /\ lastWrite = "on"

RECURSIVE ExpectedTrace(_)
ExpectedTrace(ids) ==
    IF ids = <<>> THEN << <<"alarm", 0>> >>
    ELSE << <<"play", Head(ids)>>, <<"transition", Head(ids)>>,
            <<"sleep", Head(ids)>> >> \o ExpectedTrace(Tail(ids))

PlaysUpTo(k) == Cardinality({j \in 1..k : trace[j][1] \in {"play", "alarm"}})

\* C6: meditate takes the plan's clips in plan order, each as non-looping
\* playback to its end, then one transition heartbeat, then one padding
\* sleep; the looping alarm starts only after the last clip's padding sleep,
\* and at most one playback process is alive at any time.
C6_SessionOrder ==
    /\ IsPrefix(trace, ExpectedTrace(selected))
    /\ Cardinality(Running) <= 1
    /\ PlaysUpTo(Len(trace)) = Len(procs)
    /\ \A k \in DOMAIN trace :
          /\ trace[k][1] = "transition" =>
                procs[PlaysUpTo(k)].state = "exited"
          /\ trace[k][1] = "play" => ~procs[PlaysUpTo(k)].loop
          /\ trace[k][1] = "alarm" => procs[PlaysUpTo(k)].loop

C6_Witness ==
    /\ pc = "pa_sleep"
    /\ Len(selected) = 2
    /\ trace = ExpectedTrace(selected)
    /\ Running = {3}

\* C7: every plan create returns has the sum of its selected durations
\* strictly below the budget and a padding that is not negative.
C7_SumBelowBudget ==
    pc = "cr_returned" =>
        /\ SumDur(selected) < duration
        /\ padding.den > 0
        /\ padding.num >= 0

C7_Witness ==
    /\ pc = "cr_returned"
    /\ Len(selected) = 2
    /\ SumDur(selected) = duration - 1

\* C8: every plan create returns fills the budget: padding is (budget - sum
\* of the selected durations) / (number of selected clips), so that sum +
\* padding * count = budget; [600, 900] out of {600, 900, 1200} with budget
\* 1800 gets padding 150.
C8_PaddingFillsBudget ==
    pc = "cr_returned" =>
        /\ Len(selected) > 0
        /\ REq(padding, Rat(duration - SumDur(selected), Len(selected)))
        /\ SumDur(selected) * padding.den + padding.num * Len(selected)
              = duration * padding.den
        /\ (meditations = <<600, 900, 1200>> /\ duration = 1800
              /\ selected = <<1, 2>>) => REq(padding, RInt(150))

C8_Witness ==
    /\ pc = "cr_returned"
    /\ meditations = <<600, 900, 1200>>
    /\ duration = 1800
    /\ selected = <<1, 2>>
    /\ REq(padding, RInt(150))

\* C9: in every plan create returns the first offset is 0, each later offset
\* is the previous clip's offset plus its duration plus the padding, in
\* selection order, and the offsets increase strictly.
C9_Offsets ==
    pc = "cr_returned" =>
        /\ Len(offsets) = Len(selected)
        /\ offsets[1].num = 0
        /\ \A i \in 2..Len(offsets) :
              /\ offsets[i].den > 0
              /\ REq(offsets[i],
                     RAdd(RAdd(offsets[i - 1], padding),
                          RInt(Dur(selected[i - 1]))))
              /\ RLess(offsets[i - 1], offsets[i])

C9_Witness ==
    /\ pc = "cr_returned"
    /\ meditations = <<600, 900, 1200>>
    /\ duration = 1800
    /\ selected = <<1, 2>>
    /\ REq(offsets[2], RInt(750))

RECURSIVE TakenIds(_)
TakenIds(w) ==
    IF w = <<>> THEN <<>>
    ELSE (IF Head(w).taken THEN <<Head(w).id>> ELSE <<>>) \o TakenIds(Tail(w))

\* C10: create walks one permutation of the catalog once; it selects a clip
\* exactly when its duration is strictly less than the budget remaining at
\* that point, which each selection decreases by the clip's duration; the
\* selection is the subsequence of the permutation made of the clips taken,
\* each clip of the catalog at most once.
C10_Walk ==
    pc \in {"cr_walk", "cr_offsets", "cr_returned"} =>
        /\ Len(available) = Len(meditations)
        /\ Injective(available)
        /\ IsPrefix([k \in DOMAIN walk |-> walk[k].id], available)
        /\ pc # "cr_walk" => Len(walk) = Len(available)
        /\ \A k \in DOMAIN walk :
              /\ walk[k].before
                    = duration - SumDur(TakenIds(SubSeq(walk, 1, k - 1)))
              /\ walk[k].taken <=> Dur(walk[k].id) < walk[k].before
        /\ selected = TakenIds(walk)
        /\ Injective(selected)
        /\ remaining = duration - SumDur(selected)

C10_Witness ==
    /\ pc = "cr_returned"
    /\ Len(selected) = 2
    /\ \E k \in DOMAIN walk :
          /\ ~walk[k].taken
          /\ Dur(walk[k].id) = walk[k].before

\* C11: when the catalog is empty or planning selects no clip, meditate
\* reports the condition and returns, without spawning any playback process
\* and without an exception leaving it.
C11_NoSessionWithoutClips ==
    (pc \in Stopped /\ intPc = "none" /\ NoneFits) =>
        /\ pc = "done"
        /\ exc = "none"
        /\ reported
        /\ procs = <<>>

\* C13: once poll has seen the non-looping process end on its own, at
\* whatever tick count, and no interrupt was delivered, play_meditation
\* returns without raising and its last backlight write was "on".
C13_NaturalExitCompletes ==
    (/\ procs # <<>>
     /\ Len(procs) = cur
     /\ ~procs[Vlc].loop
     /\ procs[Vlc].state = "exited"
     /\ procs[Vlc].waited
     /\ intPc = "none"
     /\ pc # "pm_finally") =>
        /\ exc = "none"
        /\ pc # "raised"
        /\ lastWrite = "on"

\* ---------------- Cyberdeck.screensaver / touchscreen-power-watch.py
\* The watcher process started at login (startup.py launches
\* touchscreen-power-watch.py; `cyberdeck.py screensaver` runs the same
\* loop): one line of `xscreensaver-command -watch` is read and acted on.
\* Its write goes to the same control file, from another process.
WatchActions == {"unblank", "blank", "run", "lock"}

WatchEvent ==
    /\ \E action \in WatchActions :
          bl_power' = IF action = "unblank" THEN PowerValue(TRUE)
                      ELSE IF action \in {"blank", "run"} THEN PowerValue(FALSE)
                      ELSE bl_power
    /\ UNCHANGED <<pc, exc, planVars, cur, procs, cycle, lastWrite,
                   lastWriteOk, trace, intVars, tickVars, reported>>
    /\ UNCHANGED sysVars

NextWatch == Next \/ WatchEvent

\* a session while the watcher started at login is running
SpecWatch == Init /\ [][NextWatch]_vars

\* C12: the playback controller is the only writer of the backlight control
\* file during a session: the file always holds what the controller's last
\* successful write put there.
C12_SingleWriter ==
    (lastWrite # "none" /\ lastWriteOk) =>
        bl_power = PowerValue(lastWrite = "on")

\* ------------------------------------------------------------- liveness
\* a --play-and-exit process reaches the end of its clip
ClipExit ==
    /\ \E p \in Running :
          /\ ~procs[p].loop
          /\ procs' = [procs EXCEPT ![p].state = "exited"]
    /\ UNCHANGED <<pc, exc, planVars, cur, cycle, lightVars, trace, intVars,
                   tickVars, reported>>
    /\ UNCHANGED sysVars

\* The program keeps running while it has a step to take, and every clip
\* has an end; nothing makes an interrupt or the end of the alarm happen.
Fairness ==
    /\ WF_vars(Meditate)
    /\ WF_vars(Create)
    /\ WF_vars(PlayMeditation)
    /\ WF_vars(PlayAlarm)
    /\ WF_vars(ClipExit)

SpecLive == Init /\ [][Next]_vars /\ Fairness

AlarmPhase == {"pa_banner", "pa_poll", "pa_sleep"}

AlarmStarted ==
    /\ procs # <<>>
    /\ procs[Vlc].loop
    /\ trace = ExpectedTrace(selected)

\* C15: once create has returned a (non-empty) plan, unless an interrupt is
\* delivered, meditate eventually starts the looping alarm, and has by then
\* started every scheduled clip exactly once, in order; the alarm phase is
\* left only by an interrupt or by the alarm process having ended.
C15_SessionReachesAlarm ==
    /\ (pc = "cr_returned") ~> (AlarmStarted \/ intPc # "none")
    /\ [][(pc \in AlarmPhase /\ pc' \notin AlarmPhase) =>
             (intPc' # "none" \/ procs[Vlc].state # "running")]_vars

\* ------------------------- Meditation.load / Cyberdeck.load_meditations
MaxFiles == 2
MaxTenths == 12

\* int(float(text)) of a duration printed in seconds, here in tenths
IntOfFloat(tenths) == tenths \div 10

\* What ffprobe does on one file: "exit" is a non-zero exit status, "noline"
\* an output without a duration= line, "bad" a duration= line that float()
\* cannot parse (ffprobe prints duration=N/A), "ok" a duration in tenths.
ProbeResults ==
    {[kind |-> k, tenths |-> 0] : k \in {"exit", "noline", "bad"}}
        \cup {[kind |-> "ok", tenths |-> t] : t \in 0..MaxTenths}

MeditationOf(d) == [type |-> "Meditation", duration |-> d]

\* Meditation.load: the value returned, and the exception raised if any
Load(probe) ==
    IF probe.kind = "exit" THEN [raised |-> "none", value |-> PyNone]
    ELSE IF probe.kind = "noline" THEN [raised |-> "none", value |-> PyNone]
    ELSE IF probe.kind = "bad" THEN [raised |-> "ValueError", value |-> PyNone]
    ELSE [raised |-> "none", value |-> MeditationOf(IntOfFloat(probe.tenths))]

\* `if meditation:` an instance of the dataclass is true whatever its fields
Truthy(v) == v.type # "NoneType"

\* os.listdir(MEDITATION_DIRECTORY), [] when it raises OSError
Filenames == IF dir.exists THEN dir.files ELSE <<>>

LdListdir ==
    /\ pc = "ld_listdir"
    /\ meditations' = <<>>
    /\ ldIdx' = 1
    /\ pc' = "ld_for"
    /\ UNCHANGED <<exc, duration, available, idx, remaining, selected, padding,
                   offset, offsets, walk, cur, procs, cycle, lightVars, trace,
                   intVars, tickVars, reported, dir, prog, xrandr, hdmi,
                   touchscreen, mode, launched>>

LdFile ==
    /\ pc = "ld_for"
    /\ ldIdx <= Len(Filenames)
    /\ LET r == Load(Filenames[ldIdx])
       IN  IF r.raised # "none"
           THEN /\ exc' = r.raised
                /\ pc' = "raised"
                /\ UNCHANGED <<meditations, ldIdx>>
           ELSE /\ meditations' = IF Truthy(r.value)
                                  THEN Append(meditations, r.value.duration)
                                  ELSE meditations
                /\ ldIdx' = ldIdx + 1
                /\ UNCHANGED <<exc, pc>>
    /\ UNCHANGED <<duration, available, idx, remaining, selected, padding,
                   offset, offsets, walk, cur, procs, cycle, lightVars, trace,
                   intVars, tickVars, reported, dir, prog, xrandr, hdmi,
                   touchscreen, mode, launched>>

LdReturn ==
    /\ pc = "ld_for"
    /\ ldIdx > Len(Filenames)
    /\ pc' = "ld_returned"
    /\ UNCHANGED <<exc, planVars, cur, procs, cycle, lightVars, trace, intVars,
                   tickVars, reported, sysVars>>

LoadMeditations == LdListdir \/ LdFile \/ LdReturn

FileLists == UNION {[1..n -> ProbeResults] : n \in 0..MaxFiles}

\* load_meditations on a directory that is missing, empty, or holds files
InitLoad ==
    /\ pc = "ld_listdir"
    /\ \/ dir = [exists |-> FALSE, files |-> <<>>]
       \/ \E fs \in FileLists : dir = [exists |-> TRUE, files |-> fs]
    /\ meditations = <<>>
    /\ duration = 0
    /\ bl_power = "0"
    /\ InitRest
    /\ ldIdx = 0
    /\ prog = "none"
    /\ xrandr = [ok |-> TRUE, names |-> <<>>]
    /\ hdmi = FALSE
    /\ touchscreen = FALSE
    /\ mode = PyNone
    /\ launched = <<>>

SpecLoad == InitLoad /\ [][LoadMeditations]_vars

RECURSIVE PositiveDurations(_)
PositiveDurations(fs) ==
    IF fs = <<>> THEN <<>>
    ELSE (IF Head(fs).kind = "ok" /\ Head(fs).tenths >= 10
          THEN <<Head(fs).tenths \div 10>> ELSE <<>>)
         \o PositiveDurations(Tail(fs))

\* C14: load_meditations never raises on a failed probe, and returns exactly
\* the files whose probe gave a duration of at least one second (none for a
\* missing or empty directory).
C14_CatalogOfProbedClips ==
    /\ exc = "none"
    /\ pc = "ld_returned" => meditations = PositiveDurations(Filenames)

\* ------------------------------ Cyberdeck.detect_monitors / start / setup
MaxMonitors == 3

HDMI_MONITOR_NAME == "HDMI-1"

TOUCHSCREEN_MONITOR_NAME == "DSI-1"

MonitorNames == {HDMI_MONITOR_NAME, TOUCHSCREEN_MONITOR_NAME, "DP-1"}

\* class CyberdeckMode(Enum): a member, with its value
CyberdeckMode(value) == [type |-> "CyberdeckMode", val |-> value]

PyStr(s) == [type |-> "str", val |-> s]

\* a == b: a member of a plain Enum equals only itself, never a str
PyEq(a, b) == a.type = b.type /\ a.val = b.val

\* the monitors setter: an attribute is set when a monitor has its name
Has(names, name) == \E i \in DOMAIN names : names[i] = name

ModeOf(h, t) ==
    IF h /\ t THEN CyberdeckMode("Docked")
    ELSE IF t THEN CyberdeckMode("Undocked")
    ELSE CyberdeckMode("Terminal")

loginRest == <<exc, planVars, cur, procs, cycle, lightVars, trace, intVars,
               tickVars, reported, dir, ldIdx, prog, xrandr>>

\* cyberdeck.py start: detect_monitors (a failing xrandr counts as no output)
CdDetectMonitors ==
    /\ pc = "cd_detect"
    /\ LET names == IF xrandr.ok THEN xrandr.names ELSE <<>>
           h == Has(names, HDMI_MONITOR_NAME)
           t == Has(names, TOUCHSCREEN_MONITOR_NAME)
       IN  /\ hdmi' = h
           /\ touchscreen' = t
           /\ mode' = ModeOf(h, t)
    /\ pc' = "cd_launch"
    /\ UNCHANGED <<loginRest, launched>>

CdLaunchScreensaver ==
    /\ pc = "cd_launch"
    /\ launched' = Append(launched, "screensaver")
    /\ pc' = "cd_decide"
    /\ UNCHANGED <<loginRest, hdmi, touchscreen, mode>>

\* if self.mode == 'Docked': self.setup_docked()
CdStartDecide ==
    /\ pc = "cd_decide"
    /\ pc' = IF PyEq(mode, PyStr("Docked")) THEN "sd_xinput" ELSE "done"
    /\ UNCHANGED <<loginRest, hdmi, touchscreen, mode, launched>>

\* startup.py: setup
SuLaunchWatch ==
    /\ pc = "su_launch"
    /\ launched' = Append(launched, "watch")
    /\ pc' = "su_detect"
    /\ UNCHANGED <<loginRest, hdmi, touchscreen, mode>>

SuDetectMonitors ==
    /\ pc = "su_detect"
    /\ IF xrandr.ok
       THEN /\ hdmi' = Has(xrandr.names, HDMI_MONITOR_NAME)
            /\ touchscreen' = Has(xrandr.names, TOUCHSCREEN_MONITOR_NAME)
            /\ pc' = "su_decide"
            /\ exc' = exc
       ELSE /\ exc' = "CalledProcessError"
            /\ pc' = "raised"
            /\ UNCHANGED <<hdmi, touchscreen>>
    /\ UNCHANGED <<planVars, cur, procs, cycle, lightVars, trace, intVars,
                   tickVars, reported, dir, ldIdx, prog, xrandr, mode,
                   launched>>

\* if self.hdmi and self.touchscreen: self.setup_docked()
SuSetupDecide ==
    /\ pc = "su_decide"
    /\ pc' = IF hdmi /\ touchscreen THEN "sd_xinput" ELSE "done"
    /\ UNCHANGED <<loginRest, hdmi, touchscreen, mode, launched>>

\* setup_docked: the coordinate transformation matrix is set with xinput
\* (check_call raises when xinput fails), then the terminal is launched
SdXinput ==
    /\ pc = "sd_xinput"
    /\ launched' = Append(launched, "xinput")
    /\ \E ok \in BOOLEAN :
          /\ pc' = IF ok THEN "sd_xterm" ELSE "raised"
          /\ exc' = IF ok THEN exc ELSE "CalledProcessError"
    /\ UNCHANGED <<planVars, cur, procs, cycle, lightVars, trace, intVars,
                   tickVars, reported, dir, ldIdx, prog, xrandr, hdmi,
                   touchscreen, mode>>

SdTerminal ==
    /\ pc = "sd_xterm"
    /\ launched' = Append(launched, "xterm")
    /\ pc' = "done"
    /\ UNCHANGED <<loginRest, hdmi, touchscreen, mode>>

Login ==
    \/ CdDetectMonitors \/ CdLaunchScreensaver \/ CdStartDecide
    \/ SuLaunchWatch \/ SuDetectMonitors \/ SuSetupDecide
    \/ SdXinput \/ SdTerminal

MonitorLists == UNION {[1..n -> MonitorNames] : n \in 0..MaxMonitors}

\* `cyberdeck.py start` or startup.py, on any list of monitors
InitLogin ==
    /\ prog \in {"cyberdeck", "startup"}
    /\ pc = IF prog = "cyberdeck" THEN "cd_detect" ELSE "su_launch"
    /\ \/ xrandr = [ok |-> FALSE, names |-> <<>>]
       \/ \E ns \in MonitorLists : xrandr = [ok |-> TRUE, names |-> ns]
    /\ hdmi = FALSE
    /\ touchscreen = FALSE
    /\ mode = PyNone
    /\ launched = <<>>
    /\ dir = [exists |-> FALSE, files |-> <<>>]
    /\ ldIdx = 0
    /\ meditations = <<>>
    /\ duration = 0
    /\ bl_power = "0"
    /\ InitRest

SpecLogin == InitLogin /\ [][Login]_vars

Detected(name) == xrandr.ok /\ Has(xrandr.names, name)

DockedSetupRun == \E i \in DOMAIN launched : launched[i] = "xinput"

\* C16: after detect_monitors the mode is docked exactly when both the HDMI
\* and the touchscreen monitor were detected, undocked when only the
\* touchscreen was, terminal otherwise; and start() has run the docked setup
\* (xinput, then the terminal) exactly when the mode is docked, as
\* startup.py's setup() does exactly when hdmi and touchscreen are both set.
C16_DockedSetupIffDocked ==
    /\ (prog = "cyberdeck" /\ pc # "cd_detect") =>
          /\ mode = CyberdeckMode("Docked") <=>
                (Detected(HDMI_MONITOR_NAME)
                    /\ Detected(TOUCHSCREEN_MONITOR_NAME))
          /\ mode = CyberdeckMode("Undocked") <=>
                (~Detected(HDMI_MONITOR_NAME)
                    /\ Detected(TOUCHSCREEN_MONITOR_NAME))
          /\ mode = CyberdeckMode("Terminal") <=>
                ~Detected(TOUCHSCREEN_MONITOR_NAME)
    /\ (prog = "cyberdeck" /\ pc \in Stopped) =>
          (DockedSetupRun <=> mode = CyberdeckMode("Docked"))
    /\ (prog = "startup" /\ pc \in Stopped) =>
          (DockedSetupRun <=> (hdmi /\ touchscreen))
    /\ \A i \in DOMAIN launched :
          launched[i] = "xterm" => (i > 1 /\ launched[i - 1] = "xinput")

====
